---------------------------- MODULE Spec2Model ----------------------------
(***************************************************************************)
(* A byte-level model of the BSA archive library (crate bsalib): the       *)
(* version tag, the v10X header, the v10X writer (write_bsa) and the v10X  *)
(* reader (read_bsa, list, extract), instantiated for the v105 variant.    *)
(*                                                                         *)
(* A sink or source is a sequence of bytes (0..255); positions are 0-based *)
(* offsets as in the code.  A u32 that the code only copies or masks is    *)
(* kept as its four little-endian bytes; a u32 the code computes with is a *)
(* natural number and is encoded when it is written.                       *)
(***************************************************************************)
EXTENDS Naturals, Sequences, FiniteSets

VARIABLES
    (* Version (version.rs) *)
    vpc,        \* position of the version scenario
    vval,       \* the Version value in hand
    vbuf,       \* the byte buffer the version is written to / read from
    vres,       \* result of the last version operation
    (* Header (v10x.rs, HeaderV10X / RawHeader) *)
    hpc,        \* position of the header scenario
    hval,       \* the header value written
    hbuf,       \* the byte buffer holding the raw header
    hres,       \* the header read back
    (* Writer (v10x.rs, BsaWriterV10X::write_bsa) *)
    opts,       \* BsaWriterOptionsV10X
    dirs,       \* the input Vec<BsaDirSource>
    wpc,        \* the statement of write_bsa that runs next
    wi,         \* index of the directory the running loop is at
    wj,         \* index of the file the running loop is at
    out,        \* the bytes of the sink
    outPos,     \* the sink's stream position
    file_names, \* FileNames returned by write_header
    dir_records,          \* Vec<Positioned<RDR>>
    dir_content_records,  \* Vec<Positioned<DirContentRecord>>
    blocks,     \* history: where each content block and data block was written
    wres,       \* result of write_bsa
    (* Reader (v10x.rs, BsaReaderV10X) *)
    rpc,        \* "closed" before read_bsa, then "open"
    rheader,    \* BsaReaderV10X.header
    rdirs,      \* BsaReaderV10X.dirs : Option<Vec<BsaDir>>
    rpos,       \* stream position of BsaReaderV10X.reader
    rlast,      \* the last reader operation, its result and its I/O
    (* One file record, from its placeholder to the entry list() gives *)
    fpc,        \* position in the file-record scenario
    fin,        \* its inputs: options, file source, position, byte count
    frec,       \* the FileRecord
    fres        \* the BsaFile that to_file makes of it

versionVars == <<vpc, vval, vbuf, vres>>
headerVars  == <<hpc, hval, hbuf, hres>>
writerVars  == <<opts, dirs, wpc, wi, wj, out, outPos, file_names,
                 dir_records, dir_content_records, blocks, wres>>
readerVars  == <<rpc, rheader, rdirs, rpos, rlast>>
recordVars  == <<fpc, fin, frec, fres>>
vars == <<versionVars, headerVars, writerVars, readerVars, recordVars>>

---------------------------------------------------------------------------
(* Bytes and little-endian scalars                                         *)

Byte == 0..255

Min(a, b) == IF a < b THEN a ELSE b
Max(a, b) == IF a > b THEN a ELSE b

\* u32::write_here / write_struct of a u32: the four little-endian bytes.
U32LE(n) == <<n % 256, (n \div 256) % 256, (n \div 65536) % 256,
              (n \div 16777216) % 256>>

\* u32 read_struct: the value of four little-endian bytes (below 2^31).
U32Val(b) == b[1] + 256 * b[2] + 65536 * b[3] + 16777216 * b[4]

U16LE(n) == <<n % 256, (n \div 256) % 256>>

U16Val(b) == b[1] + 256 * b[2]

\* Does the bit of value `bit` (a power of two) belong to n ?
HasBit(n, bit) == (n \div bit) % 2 = 1

\* The bytes s[from+1 .. from+n] of a source (0-based offset `from`).
Slice(s, from, n) == [k \in 1..n |-> s[from + k]]

\* Write::write_all at stream position pos: overwrite, growing the sink.
WriteAt(s, pos, bytes) ==
    [k \in 1..Max(Len(s), pos + Len(bytes)) |->
        IF k > pos /\ k <= pos + Len(bytes) THEN bytes[k - pos]
        ELSE IF k <= Len(s) THEN s[k] ELSE 0]

RECURSIVE SumSeq(_)
SumSeq(s) == IF s = <<>> THEN 0 ELSE Head(s) + SumSeq(Tail(s))

RECURSIVE Concat(_)
Concat(ss) == IF ss = <<>> THEN <<>> ELSE Head(ss) \o Concat(Tail(ss))

---------------------------------------------------------------------------
(* Version (version.rs)                                                    *)

\* MagicNumber, as its four bytes on disk.
MagicV001 == <<0, 1, 0, 0>>
MagicV10X == <<66, 83, 65, 0>>
MagicBTDX == <<66, 84, 68, 88>>

\* enum Version10X, as the u32 it is cast to.
V103 == 103
V104 == 104
V105 == 105

\* A Version is [tag, v]: v is the four bytes of the u32 that V10X and V200
\* carry (all zero for V001).
NoU32 == <<0, 0, 0, 0>>
VersionV001 == [tag |-> "V001", v |-> NoU32]
VersionV10X(n) == [tag |-> "V10X", v |-> U32LE(n)]
VersionV200(b) == [tag |-> "V200", v |-> b]

\* From<&Version> for MagicNumber
MagicOf(version) ==
    CASE version.tag = "V001" -> MagicV001
      [] version.tag = "V10X" -> MagicV10X
      [] version.tag = "V200" -> MagicBTDX

\* Writable::size for Version
VersionSize(version) ==
    4 + (CASE version.tag = "V001" -> 0
           [] version.tag = "V10X" -> 4
           [] version.tag = "V200" -> 4)

\* Mutant: the V200 arm forgets the u32.
VersionBytesNoU32(version) ==
    MagicOf(version) \o
    (CASE version.tag = "V001" -> <<>>
       [] version.tag = "V200" -> <<>>
       [] version.tag = "V10X" -> version.v)

\* Writable::write_here for Version: the bytes written.
VersionBytes(version) ==
    MagicOf(version) \o
    (CASE version.tag = "V001" -> <<>>
       [] version.tag = "V200" -> version.v
       [] version.tag = "V10X" -> version.v)

VOk(version) == [kind |-> "Ok", version |-> version, arg |-> NoU32]
VErr(kind, arg) == [kind |-> kind, version |-> VersionV001, arg |-> arg]

\* Mutant: the catch-all arm of the version match yields V105.
VersionReadHereLenient(buf) ==
    IF Len(buf) < 4 THEN VErr("Io", NoU32)
    ELSE LET magic == Slice(buf, 0, 4) IN
         CASE magic = MagicV001 -> VOk(VersionV001)
           [] magic = MagicV10X ->
                IF Len(buf) < 8 THEN VErr("Io", NoU32)
                ELSE LET version == Slice(buf, 4, 4) IN
                     IF version = U32LE(V103) THEN VOk(VersionV10X(V103))
                     ELSE IF version = U32LE(V104) THEN VOk(VersionV10X(V104))
                     ELSE VOk(VersionV10X(V105))
           [] magic = MagicBTDX ->
                IF Len(buf) < 8 THEN VErr("Io", NoU32)
                ELSE VOk(VersionV200(Slice(buf, 4, 4)))
           [] OTHER -> VErr("UnknownMagicNumber", magic)

\* MagicNumber::read_here0 followed by u32::read_here0: a short source is an
\* I/O error (UnexpectedEof).
VersionReadHere(buf) ==
    IF Len(buf) < 4 THEN VErr("Io", NoU32)
    ELSE LET magic == Slice(buf, 0, 4) IN
         CASE magic = MagicV001 -> VOk(VersionV001)
           [] magic = MagicV10X ->
                IF Len(buf) < 8 THEN VErr("Io", NoU32)
                ELSE LET version == Slice(buf, 4, 4) IN
                     IF version = U32LE(V103) THEN VOk(VersionV10X(V103))
                     ELSE IF version = U32LE(V104) THEN VOk(VersionV10X(V104))
                     ELSE IF version = U32LE(V105) THEN VOk(VersionV10X(V105))
                     ELSE VErr("UnknownVersion", version)
           [] magic = MagicBTDX ->
                IF Len(buf) < 8 THEN VErr("Io", NoU32)
                ELSE VOk(VersionV200(Slice(buf, 4, 4)))
           [] OTHER -> VErr("UnknownMagicNumber", magic)

\* Mutant: the V200 arm hands the source to the v10X reader.
VersionReadV200AsV10X(version, readable) ==
    CASE version.tag = "V001" ->
            IF readable THEN [kind |-> "ReaderV001", version |-> version, arg |-> NoU32]
            ELSE VErr("Io", NoU32)
      [] OTHER ->
            IF readable THEN [kind |-> "ReaderV10X", version |-> version, arg |-> NoU32]
            ELSE VErr("Io", NoU32)

\* Version::read: the reader a version dispatches to, or the error.
\* readable: whether the variant's own reader accepts the source.
VersionRead(version, readable) ==
    CASE version.tag = "V200" -> VErr("UnsupportedVersion", version.v)
      [] version.tag = "V001" ->
            IF readable THEN [kind |-> "ReaderV001", version |-> version, arg |-> NoU32]
            ELSE VErr("Io", NoU32)
      [] version.tag = "V10X" ->
            IF readable THEN [kind |-> "ReaderV10X", version |-> version, arg |-> NoU32]
            ELSE VErr("Io", NoU32)

\* Version::open: File::open(path)? comes first.
VersionOpen(version, opened, readable) ==
    IF ~opened THEN VErr("Io", NoU32) ELSE VersionRead(version, readable)

\* The u32 values the version scenarios draw from: every combination of
\* these byte values in the four positions.
VersionByteSamples == {0, 103, 104, 255}
U32Samples == {<<a, b, c, d>> : a \in VersionByteSamples, b \in {0, 1},
                                c \in {0, 255}, d \in {0, 128}}

VersionValues ==
    {VersionV001, VersionV10X(V103), VersionV10X(V104), VersionV10X(V105)}
    \cup {VersionV200(b) : b \in U32Samples}

MagicSamples == {MagicV001, MagicV10X, MagicBTDX, <<66, 83, 65, 1>>}

VNone == [kind |-> "None", version |-> VersionV001, arg |-> NoU32]


NoVersion == [tag |-> "None", v |-> NoU32]

\* The version scenario is not running.
VersionIdle ==
    /\ vpc = "idle"
    /\ vval = NoVersion
    /\ vbuf = <<>>
    /\ vres = VNone

\* A Version value is about to be written to an empty buffer.
VersionInit ==
    /\ vpc = "start"
    /\ vval \in VersionValues
    /\ vbuf = <<>>
    /\ vres = VNone

\* version.write_here(&mut writer) on an empty buffer
version_write ==
    /\ vpc = "start"
    /\ vbuf' = VersionBytes(vval)
    /\ vpc' = "written"
    /\ UNCHANGED <<vval, vres>>
    /\ UNCHANGED <<headerVars, writerVars, readerVars, recordVars>>

\* Instead of writing, the caller supplies a source that some other program
\* wrote: a magic number followed by a u32.
version_source ==
    /\ vpc = "start"
    /\ \E magic \in MagicSamples, b \in U32Samples : vbuf' = magic \o b
    /\ vval' = NoVersion
    /\ vpc' = "given"
    /\ UNCHANGED vres
    /\ UNCHANGED <<headerVars, writerVars, readerVars, recordVars>>

\* Version::read_here(&mut buffer, &())
version_read_here ==
    /\ vpc \in {"written", "given"}
    /\ vres' = VersionReadHere(vbuf)
    /\ vpc' = "read"
    /\ UNCHANGED <<vval, vbuf>>
    /\ UNCHANGED <<headerVars, writerVars, readerVars, recordVars>>

\* version.read(reader) on the Version that read_here produced
version_read ==
    /\ vpc = "read"
    /\ vres.kind = "Ok"
    /\ \E readable \in BOOLEAN : vres' = VersionRead(vres.version, readable)
    /\ vval' = vres.version
    /\ vpc' = "read_done"
    /\ UNCHANGED vbuf
    /\ UNCHANGED <<headerVars, writerVars, readerVars, recordVars>>

\* version.open(path) on the Version that read_here produced
version_open ==
    /\ vpc = "read"
    /\ vres.kind = "Ok"
    /\ \E opened \in BOOLEAN, readable \in BOOLEAN :
          /\ vres' = VersionOpen(vres.version, opened, readable)
          /\ vpc' = IF opened THEN "open_done" ELSE "open_failed"
    /\ vval' = vres.version
    /\ UNCHANGED vbuf
    /\ UNCHANGED <<headerVars, writerVars, readerVars, recordVars>>

---------------------------------------------------------------------------
(* Header (v10x.rs: RawHeader, HeaderV10X)                                 *)

\* enum ArchiveFlag with the bit each flag stands for.
ArchiveFlagBits ==
    << <<"IncludeDirectoryNames", 1>>, <<"IncludeFileNames", 2>>,
       <<"CompressedArchive", 4>>, <<"RetainDirectoryNames", 8>>,
       <<"RetainFileNames", 16>>, <<"RetainFileNameOffsets", 32>>,
       <<"Xbox360Archive", 64>>, <<"RetainStringsDuringStartup", 128>>,
       <<"EmbedFileNames", 256>>, <<"XMemCodec", 512>> >>

ArchiveFlag == {ArchiveFlagBits[k][1] : k \in 1..Len(ArchiveFlagBits)}

\* enum FileFlag with the bit each flag stands for.
FileFlagBits ==
    << <<"Meshes", 1>>, <<"Textures", 2>>, <<"Menus", 4>>, <<"Sounds", 8>>,
       <<"Voices", 16>>, <<"Shaders", 32>>, <<"Trees", 64>>, <<"Fonts", 128>>,
       <<"Miscellaneous", 256>> >>

FileFlag == {FileFlagBits[k][1] : k \in 1..Len(FileFlagBits)}

\* BitFlags::bits: the OR of the bits of the flags of a set.
BitsOf(table, flags) ==
    SumSeq([k \in 1..Len(table) |->
                IF table[k][1] \in flags THEN table[k][2] ELSE 0])

\* BitFlags::from_bits_truncate: the flags whose bit is set, other bits dropped.
FromBitsTruncate(table, bits) ==
    {table[k][1] : k \in {n \in 1..Len(table) : HasBit(bits, table[n][2])}}

\* ToArchiveBitFlags::to_archive_bit_flags
to_archive_bit_flags(bits) == FromBitsTruncate(ArchiveFlagBits, bits)

\* ToArchiveBitFlags::from_archive_bit_flags
from_archive_bit_flags(flags) == BitsOf(ArchiveFlagBits, flags)

\* Mutant: the padding is not carried over.
RawHeaderFromHeaderNoPadding(h) ==
    [offset |-> h.offset,
     archive_flags |-> from_archive_bit_flags(h.archive_flags),
     dir_count |-> h.dir_count,
     file_count |-> h.file_count,
     total_dir_name_length |-> h.total_dir_name_length,
     total_file_name_length |-> h.total_file_name_length,
     file_flags |-> BitsOf(FileFlagBits, h.file_flags),
     padding |-> 0]

\* From<&HeaderV10X<AF>> for RawHeader
RawHeaderFromHeader(h) ==
    [offset |-> h.offset,
     archive_flags |-> from_archive_bit_flags(h.archive_flags),
     dir_count |-> h.dir_count,
     file_count |-> h.file_count,
     total_dir_name_length |-> h.total_dir_name_length,
     total_file_name_length |-> h.total_file_name_length,
     file_flags |-> BitsOf(FileFlagBits, h.file_flags),
     padding |-> h.padding]

\* From<&RawHeader> for HeaderV10X<AF>
HeaderFromRawHeader(raw) ==
    [offset |-> raw.offset,
     archive_flags |-> to_archive_bit_flags(raw.archive_flags),
     dir_count |-> raw.dir_count,
     file_count |-> raw.file_count,
     total_dir_name_length |-> raw.total_dir_name_length,
     total_file_name_length |-> raw.total_file_name_length,
     file_flags |-> FromBitsTruncate(FileFlagBits, raw.file_flags),
     padding |-> raw.padding]

\* size_of::<RawHeader>()
RawHeaderSize == 28

\* RawHeader::pos(): size_of::<(MagicNumber, Version10X)>()
RawHeaderPos == 8

\* The #[repr(C)] layout of RawHeader, little-endian.
RawHeaderBytes(raw) ==
    U32LE(raw.offset) \o U32LE(raw.archive_flags) \o U32LE(raw.dir_count)
    \o U32LE(raw.file_count) \o U32LE(raw.total_dir_name_length)
    \o U32LE(raw.total_file_name_length) \o U16LE(raw.file_flags)
    \o U16LE(raw.padding)

RawHeaderParse(b) ==
    [offset |-> U32Val(Slice(b, 0, 4)),
     archive_flags |-> U32Val(Slice(b, 4, 4)),
     dir_count |-> U32Val(Slice(b, 8, 4)),
     file_count |-> U32Val(Slice(b, 12, 4)),
     total_dir_name_length |-> U32Val(Slice(b, 16, 4)),
     total_file_name_length |-> U32Val(Slice(b, 20, 4)),
     file_flags |-> U16Val(Slice(b, 24, 2)),
     padding |-> U16Val(Slice(b, 26, 2))]

\* The header of an archive that holds nothing: RawHeader::zeroed().
ZeroHeader ==
    [offset |-> 0, archive_flags |-> {}, dir_count |-> 0, file_count |-> 0,
     total_dir_name_length |-> 0, total_file_name_length |-> 0,
     file_flags |-> {}, padding |-> 0]

\* WritableFixed::write_fixed for HeaderV10X: the sink after the call.
HeaderWriteFixed(h, sink) ==
    WriteAt(sink, RawHeaderPos, RawHeaderBytes(RawHeaderFromHeader(h)))

HOk(h) == [kind |-> "Ok", header |-> h]
HErr == [kind |-> "Io", header |-> ZeroHeader]
HNone == [kind |-> "None", header |-> ZeroHeader]

\* ReadableFixed::read_fixed for HeaderV10X
HeaderReadFixed(src) ==
    IF Len(src) < RawHeaderPos + RawHeaderSize THEN HErr
    ELSE HOk(HeaderFromRawHeader(
                RawHeaderParse(Slice(src, RawHeaderPos, RawHeaderSize))))

\* The scalar fields the header scenarios draw from:
\* <<offset, dir_count, file_count, total_dir_name_length,
\*   total_file_name_length, padding>>.
HeaderScalarSamples ==
    { <<12, 13, 14, 15, 16, 13>>,
      <<36, 1, 1, 2, 2, 0>>,
      <<2147483647, 65536, 16777216, 255, 256, 65535>> }

FileFlagSamples == { {}, {"Fonts", "Menus"}, {"Miscellaneous"}, FileFlag }

HeaderSamples ==
    { [offset |-> t[1], archive_flags |-> af, dir_count |-> t[2],
       file_count |-> t[3], total_dir_name_length |-> t[4],
       total_file_name_length |-> t[5], file_flags |-> ff, padding |-> t[6]] :
        t \in HeaderScalarSamples, af \in SUBSET ArchiveFlag,
        ff \in FileFlagSamples }

HeaderIdle ==
    /\ hpc = "idle"
    /\ hval = ZeroHeader
    /\ hbuf = <<>>
    /\ hres = HNone

HeaderInit ==
    /\ hpc = "start"
    /\ hval \in HeaderSamples
    /\ hbuf = <<>>
    /\ hres = HNone

\* header_out.write_fixed(&mut out) on an empty Cursor
header_write_fixed ==
    /\ hpc = "start"
    /\ hbuf' = HeaderWriteFixed(hval, hbuf)
    /\ hpc' = "written"
    /\ UNCHANGED <<hval, hres>>
    /\ UNCHANGED <<versionVars, writerVars, readerVars, recordVars>>

\* HeaderV105::read_fixed(&mut input)
header_read_fixed ==
    /\ hpc = "written"
    /\ hres' = HeaderReadFixed(hbuf)
    /\ hpc' = "read"
    /\ UNCHANGED <<hval, hbuf>>
    /\ UNCHANGED <<versionVars, writerVars, readerVars, recordVars>>

---------------------------------------------------------------------------
(* Strings, hash and codec (str.rs, hash.rs, v105.rs)                      *)

\* str::to_lowercase on ASCII bytes
ToLowercase(s) == [k \in 1..Len(s) |-> IF s[k] \in 65..90 THEN s[k] + 32 ELSE s[k]]

\* str::replace("/", "\\")
ReplaceSlash(s) == [k \in 1..Len(s) |-> IF s[k] = 47 THEN 92 ELSE s[k]]

\* ZString on disk: the bytes and a trailing NUL.
ZStringBytes(s) == s \o <<0>>

\* BZString on disk: a length byte that counts the NUL, the bytes, a NUL.
BZStringBytes(s) == <<Len(s) + 1>> \o s \o <<0>>

\* BString on disk: a length byte, the bytes.
BStringBytes(s) == <<Len(s)>> \o s

\* One step of the rolling hash, h = h * 0x1003F + b (mod 2^32), on h kept
\* as its two 16-bit halves <<hi, lo>>.
HashStep(h, b) ==
    LET low == h[2] * 63 + b
    IN  << (h[1] * 63 + h[2] + (low \div 65536)) % 65536, low % 65536 >>

RECURSIVE HashRoll(_, _)
HashRoll(h, bytes) ==
    IF bytes = <<>> THEN h ELSE HashRoll(HashStep(h, Head(bytes)), Tail(bytes))

\* Hash::v10x of a name without extension: hash1 over the lowercased,
\* backslash-normalized stem in the low four bytes, hash2 = 0 above it.
HashV10X(name) ==
    LET n == ReplaceSlash(ToLowercase(name))
        len == Len(n)
        h0 == IF len = 0 THEN <<0, 0>>
              ELSE << (len % 256) + 256 * n[1], n[len] >>
        h == IF len < 3 THEN h0 ELSE HashRoll(h0, SubSeq(n, 2, len - 1))
    IN  U16LE(h[2]) \o U16LE(h[1]) \o <<0, 0, 0, 0>>

\* The first bytes of an LZ4 frame (magic 0x184D2204, little-endian).
LZ4Magic == <<4, 34, 77, 24>>

\* V105T::compress, abstracted: the frame is the magic, the length of the
\* content and the content, in place of LZ4's blocks.
Compress(data) == LZ4Magic \o <<Len(data)>> \o data

\* V105T::uncompress, abstracted: the content of a frame that the bytes
\* handed to the decoder hold in full.
Uncompress(window) ==
    IF /\ Len(window) >= 5
       /\ Slice(window, 0, 4) = LZ4Magic
       /\ Len(window) >= 5 + window[5]
    THEN [ok |-> TRUE, data |-> Slice(window, 5, window[5])]
    ELSE [ok |-> FALSE, data |-> <<>>]

---------------------------------------------------------------------------
(* Records (v10x.rs: DirRecord, FileRecord, DirContentRecord; v105.rs:     *)
(* RawDirRecord)                                                           *)

\* size_of::<RawDirRecord>()
RawDirRecordSize == 24

\* size_of::<FileRecord>()
FileRecordSize == 16

\* The override bit 0x40000000 of FileRecord.size, as the four bytes of the u32.
CompressionBit == <<0, 0, 0, 64>>

\* a | b on two bytes
RECURSIVE ByteOr(_, _)
ByteOr(a, b) ==
    IF a = 0 THEN b
    ELSE IF b = 0 THEN a
    ELSE 2 * ByteOr(a \div 2, b \div 2) + (IF a % 2 = 1 \/ b % 2 = 1 THEN 1 ELSE 0)

\* a | b on two u32, bytewise
U32Or(a, b) == [k \in 1..4 |-> ByteOr(a[k], b[k])]

\* From<v10x::DirRecord> for RawDirRecord, then its #[repr(C)] bytes.
RawDirRecordBytes(rec) ==
    rec.name_hash \o U32LE(rec.file_count) \o U32LE(0) \o U32LE(rec.offset)
    \o U32LE(0)

\* RawDirRecord read_struct, then From<RawDirRecord> for v10x::DirRecord.
DirRecordParse(b) ==
    [name_hash |-> Slice(b, 0, 8),
     file_count |-> U32Val(Slice(b, 8, 4)),
     offset |-> U32Val(Slice(b, 16, 4))]

\* The #[repr(C)] bytes of a FileRecord.
FileRecordBytes(fr) == fr.name_hash \o fr.size \o fr.offset

FileRecordParse(b) ==
    [name_hash |-> Slice(b, 0, 8), size |-> Slice(b, 8, 4),
     offset |-> Slice(b, 12, 4)]

\* Writable::write for DirContentRecord: the optional name, then the files.
DirContentRecordBytes(rec) ==
    (IF rec.has_name THEN BZStringBytes(rec.name) ELSE <<>>)
    \o Concat([k \in 1..Len(rec.files) |-> FileRecordBytes(rec.files[k])])

---------------------------------------------------------------------------
(* Writer (v10x.rs: BsaWriterV10X)                                         *)

\* Has<AF> for BsaWriterOptionsV10X / HeaderV10X
Has(o, f) == f \in o.archive_flags

\* ToArchiveBitFlags for the v105 ArchiveFlag
is_compressed_by_default == "CompressedArchive"
includes_file_names == "IncludeFileNames"
includes_dir_names == "IncludeDirectoryNames"
\* an Option, as the set of its values
embed_file_names == {"EmbedFileNames"}

\* Has::has_any
HasAny(o, flags) == \E f \in flags : Has(o, f)

\* size_of::<(MagicNumber, u32, RawHeader)>()
HeaderEnd == 36

\* Default for HeaderV10X
DefaultHeader == [ZeroHeader EXCEPT !.offset = HeaderEnd]

\* Mutant: the file flags of the options are not carried over.
HeaderFromOptionsNoFileFlags(o) ==
    [DefaultHeader EXCEPT !.archive_flags = o.archive_flags]

\* From<BsaWriterOptionsV10X<AF>> for HeaderV10X<AF>
HeaderFromOptions(o) ==
    [DefaultHeader EXCEPT !.archive_flags = o.archive_flags,
                          !.file_flags = o.file_flags]

\* The file names write_header collects: lowercase, directory by directory.
CollectFileNames(o, ds) ==
    IF Has(o, includes_file_names)
    THEN Concat([d \in 1..Len(ds) |->
                    [f \in 1..Len(ds[d].files) |-> ToLowercase(ds[d].files[f].name)]])
    ELSE <<>>

\* Mutant: the NUL of a directory name is not counted.
BuildHeaderNoTerminator(o, ds) ==
    LET names == CollectFileNames(o, ds) IN
    [HeaderFromOptions(o) EXCEPT
        !.dir_count = Len(ds),
        !.file_count = SumSeq([d \in 1..Len(ds) |-> Len(ds[d].files)]),
        !.total_dir_name_length =
            IF Has(o, includes_dir_names)
            THEN SumSeq([d \in 1..Len(ds) |-> Len(ds[d].name)])
            ELSE 0,
        !.total_file_name_length =
            SumSeq([k \in 1..Len(names) |-> Len(ZStringBytes(names[k]))])]

\* The header write_header builds from the options and the directories.
BuildHeader(o, ds) ==
    LET names == CollectFileNames(o, ds) IN
    [HeaderFromOptions(o) EXCEPT
        !.dir_count = Len(ds),
        !.file_count = SumSeq([d \in 1..Len(ds) |-> Len(ds[d].files)]),
        !.total_dir_name_length =
            IF Has(o, includes_dir_names)
            THEN SumSeq([d \in 1..Len(ds) |-> Len(ds[d].name) + 1])
            ELSE 0,
        !.total_file_name_length =
            SumSeq([k \in 1..Len(names) |-> Len(ZStringBytes(names[k]))])]

\* Mutant: the file count is off by one.
NewDirRecordOffByOne(dir) ==
    [name_hash |-> HashV10X(dir.name), file_count |-> Len(dir.files) + 1,
     offset |-> 0]

\* The DirRecord of write_dir_record, offset still 0.
NewDirRecord(dir) ==
    [name_hash |-> HashV10X(dir.name), file_count |-> Len(dir.files), offset |-> 0]

\* The placeholder `size` of a file record: the override bit or nothing.
PlaceholderSize(o, file) ==
    IF file.compressed = (IF Has(o, is_compressed_by_default) THEN "False" ELSE "True")
    THEN CompressionBit
    ELSE NoU32

\* The DirContentRecord of write_dir_content_record.
NewDirContentRecord(o, dir) ==
    [has_name |-> Has(o, includes_dir_names),
     name |-> IF Has(o, includes_dir_names) THEN ToLowercase(dir.name) ELSE <<>>,
     files |-> [f \in 1..Len(dir.files) |->
                  [name_hash |-> HashV10X(dir.files[f].name),
                   size |-> PlaceholderSize(o, dir.files[f]),
                   offset |-> NoU32]]]

\* Mutant: the length of the file-name pool is not added.
PatchedDirRecordNoPool(rec, content_position, total_file_name_length) ==
    [rec EXCEPT !.offset = content_position]

\* The directory record with the offset write_dir_content_records gives it.
PatchedDirRecord(rec, content_position, total_file_name_length) ==
    [rec EXCEPT !.offset = content_position + total_file_name_length]

\* write_embeded_file_name: the BString of dir\file
EmbeddedFileName(dir_name, file_name) ==
    BStringBytes(ReplaceSlash(dir_name) \o <<92>> \o ReplaceSlash(file_name))

\* file.compressed.unwrap_or(is_compressed_by_default)
WrittenCompressed(o, file) ==
    CASE file.compressed = "True" -> TRUE
      [] file.compressed = "False" -> FALSE
      [] OTHER -> Has(o, is_compressed_by_default)

\* write_file_content: the bytes it appends to the sink ...
FileContentBytes(o, dir, file) ==
    (IF HasAny(o, embed_file_names)
     THEN EmbeddedFileName(dir.name, file.name) ELSE <<>>)
    \o (IF WrittenCompressed(o, file)
        THEN U32LE(Len(file.data)) \o Compress(file.data)
        ELSE file.data)

\* ... and the byte count it returns: from the size prefix to the end of the
\* frame, or what copy() copied.
FileContentCount(o, file) ==
    IF WrittenCompressed(o, file)
    THEN 4 + Len(Compress(file.data))
    ELSE Len(file.data)

\* Mutant: the offset is taken after the block was written.
FilledFileRecordOffsetAfter(fr, position, count) ==
    [fr EXCEPT !.offset = U32LE(position + count),
               !.size = U32Or(fr.size, U32LE(count))]

\* fr.offset = position; fr.size |= count
FilledFileRecord(fr, position, count) ==
    [fr EXCEPT !.offset = U32LE(position), !.size = U32Or(fr.size, U32LE(count))]

\* Positioned::update: seek to the position, rewrite, return to the end.
PositionedUpdate(sink, position, bytes) == WriteAt(sink, position, bytes)

---------------------------------------------------------------------------
(* The inputs of write_bsa                                                 *)

MaxDirs == 2
MaxFiles == 2

\* Option<bool> of BsaFileSource.compressed
CompressedChoices == <<"None", "True", "False">>

\* Distinct lowercase directory names: "a", "bc", "c", "dc", ...
DirName(d) == IF d % 2 = 1 THEN <<96 + d>> ELSE <<96 + d, 99>>

\* Lowercase file names, distinct within a directory and not in the order of
\* their hashes: "f", "ex", "h", "gx", ...
FileName(f) == IF f % 2 = 1 THEN <<101 + f>> ELSE <<99 + f, 120>>

\* File contents of 3, 1, 0, 2, ... bytes
FileData(d, f) == [k \in 1..((d + 2 * f) % 4) |-> 16 * d + k]

\* The directory sources with the given file counts; p turns the pattern of
\* the files' `compressed` values.
DirSources(counts, p) ==
    [d \in 1..Len(counts) |->
        [name |-> DirName(d),
         files |-> [f \in 1..counts[d] |->
                      [name |-> FileName(f),
                       compressed |-> CompressedChoices[((d + f + p) % 3) + 1],
                       data |-> FileData(d, f)]]]]

InputDirs ==
    UNION { { DirSources(counts, p) : counts \in [1..n -> 0..MaxFiles], p \in 0..2 } :
            n \in 1..MaxDirs }

\* The flags that change what write_bsa and the reader do ...
LayoutFlags ==
    {"IncludeDirectoryNames", "IncludeFileNames", "CompressedArchive", "EmbedFileNames"}

\* Default for BsaWriterOptionsV10X
DefaultOptions ==
    [archive_flags |-> {includes_file_names, includes_dir_names},
     file_flags |-> {}]

\* The flags write_bsa has no support for.
Xbox360Flags == {"Xbox360Archive", "XMemCodec"}

\* ... and the options write_bsa is called with: every set of those flags,
\* the default options with one of the Xbox 360 flags, and the default
\* options with some file flags.
InputOptions ==
    { [DefaultOptions EXCEPT !.archive_flags = af] : af \in SUBSET LayoutFlags }
    \cup { [DefaultOptions EXCEPT !.archive_flags = @ \cup {x}] : x \in Xbox360Flags }
    \cup { [DefaultOptions EXCEPT !.file_flags = {"Meshes", "Textures"}] }

NoFileNames == [size |-> 0, values |-> <<>>]
NoBlocks == [content |-> <<>>, data |-> <<>>]

WriterIdle ==
    /\ opts = [archive_flags |-> {}, file_flags |-> {}]
    /\ dirs = <<>>
    /\ wpc = "idle"
    /\ wi = 1
    /\ wj = 1
    /\ out = <<>>
    /\ outPos = 0
    /\ file_names = NoFileNames
    /\ dir_records = <<>>
    /\ dir_content_records = <<>>
    /\ blocks = NoBlocks
    /\ wres = "None"

\* write_bsa is called with options, directories and an empty sink.
WriterInit ==
    /\ opts \in InputOptions
    /\ dirs \in InputDirs
    /\ wpc = "write_version"
    /\ wi = 1
    /\ wj = 1
    /\ out = <<>>
    /\ outPos = 0
    /\ file_names = NoFileNames
    /\ dir_records = <<>>
    /\ dir_content_records = <<>>
    /\ blocks = NoBlocks
    /\ wres = "None"

---------------------------------------------------------------------------
(* write_bsa, statement by statement                                       *)

\* Self::write_version(&mut out)
write_version ==
    /\ wpc = "write_version"
    /\ out' = WriteAt(out, 0, VersionBytes(VersionV10X(V105)))
    /\ outPos' = VersionSize(VersionV10X(V105))
    /\ wpc' = "write_header"
    /\ UNCHANGED <<opts, dirs, wi, wj, file_names, dir_records,
                   dir_content_records, blocks, wres>>
    /\ UNCHANGED <<versionVars, headerVars, readerVars, recordVars>>

\* Self::write_header(opts, &dirs, &mut out)
write_header ==
    /\ wpc = "write_header"
    /\ LET header == BuildHeader(opts, dirs) IN
        /\ out' = HeaderWriteFixed(header, out)
        /\ file_names' = [size |-> header.total_file_name_length,
                          values |-> CollectFileNames(opts, dirs)]
    /\ outPos' = RawHeaderPos + RawHeaderSize
    /\ wpc' = "write_dir_record"
    /\ UNCHANGED <<opts, dirs, wi, wj, dir_records, dir_content_records,
                   blocks, wres>>
    /\ UNCHANGED <<versionVars, headerVars, readerVars, recordVars>>

\* Self::write_dir_record(dir, &mut out), for the directory wi
write_dir_record ==
    /\ wpc = "write_dir_record"
    /\ LET rec == NewDirRecord(dirs[wi]) IN
        /\ dir_records' = Append(dir_records, [position |-> outPos, data |-> rec])
        /\ out' = WriteAt(out, outPos, RawDirRecordBytes(rec))
    /\ outPos' = outPos + RawDirRecordSize
    /\ IF wi < Len(dirs)
       THEN wi' = wi + 1 /\ wpc' = "write_dir_record"
       ELSE wi' = 1 /\ wpc' = "write_dir_content_record"
    /\ UNCHANGED <<opts, dirs, wj, file_names, dir_content_records, blocks, wres>>
    /\ UNCHANGED <<versionVars, headerVars, readerVars, recordVars>>

\* BZString::new accepts a name that fits the length byte with its NUL.
BZStringFits(s) == Len(s) + 1 <= 255

\* Self::write_dir_content_record(opts, dir, &mut out), for the directory wi
write_dir_content_record ==
    /\ wpc = "write_dir_content_record"
    /\ IF Has(opts, includes_dir_names) /\ ~BZStringFits(dirs[wi].name)
       THEN /\ wres' = "BadInput"
            /\ wpc' = "done"
            /\ UNCHANGED <<out, outPos, dir_content_records, blocks>>
       ELSE LET rec == NewDirContentRecord(opts, dirs[wi])
                bytes == DirContentRecordBytes(rec) IN
            /\ dir_content_records' =
                  Append(dir_content_records, [position |-> outPos, data |-> rec])
            /\ out' = WriteAt(out, outPos, bytes)
            /\ outPos' = outPos + Len(bytes)
            /\ blocks' = [blocks EXCEPT !.content = Append(@, outPos)]
            /\ wpc' = "update_dir_record"
            /\ UNCHANGED wres
    /\ UNCHANGED <<opts, dirs, wi, wj, file_names, dir_records>>
    /\ UNCHANGED <<versionVars, headerVars, readerVars, recordVars>>

\* dr.offset = fcr.position as u32 + total_file_name_length; pdr.update(&mut out)
update_dir_record ==
    /\ wpc = "update_dir_record"
    /\ LET rec == PatchedDirRecord(dir_records[wi].data,
                                    dir_content_records[wi].position,
                                    file_names.size) IN
        /\ dir_records' = [dir_records EXCEPT ![wi].data = rec]
        /\ out' = PositionedUpdate(out, dir_records[wi].position,
                                   RawDirRecordBytes(rec))
    /\ outPos' = Len(out')
    /\ IF wi < Len(dirs)
       THEN wi' = wi + 1 /\ wpc' = "write_dir_content_record"
       ELSE wi' = 1 /\ wpc' = "write_file_names"
    /\ UNCHANGED <<opts, dirs, wj, file_names, dir_content_records, blocks, wres>>
    /\ UNCHANGED <<versionVars, headerVars, readerVars, recordVars>>

\* The statement write_file_contents runs when it reaches directory d.
FileLoopAt(d) ==
    IF d > Len(dirs) THEN "done"
    ELSE IF Len(dirs[d].files) = 0 THEN "update_dir_content_record"
    ELSE "write_file_content"

\* file_names.values.write(&mut out)
write_file_names ==
    /\ wpc = "write_file_names"
    /\ LET bytes == Concat([k \in 1..Len(file_names.values) |->
                               ZStringBytes(file_names.values[k])]) IN
        /\ out' = WriteAt(out, outPos, bytes)
        /\ outPos' = outPos + Len(bytes)
    /\ wi' = 1
    /\ wj' = 1
    /\ wpc' = FileLoopAt(1)
    /\ wres' = IF FileLoopAt(1) = "done" THEN "Ok" ELSE wres
    /\ UNCHANGED <<opts, dirs, file_names, dir_records, dir_content_records, blocks>>
    /\ UNCHANGED <<versionVars, headerVars, readerVars, recordVars>>

\* fr.offset = out.stream_position(); fr.size |= Self::write_file_content(..),
\* for the file wj of the directory wi
write_file_content ==
    /\ wpc = "write_file_content"
    /\ LET dir == dirs[wi]
           file == dir.files[wj]
           bytes == FileContentBytes(opts, dir, file)
           fr == dir_content_records[wi].data.files[wj] IN
        /\ dir_content_records' =
              [dir_content_records EXCEPT ![wi].data.files[wj] =
                  FilledFileRecord(fr, outPos, FileContentCount(opts, file))]
        /\ out' = WriteAt(out, outPos, bytes)
        /\ outPos' = outPos + Len(bytes)
        /\ blocks' = [blocks EXCEPT !.data =
                        Append(@, [dir |-> wi, file |-> wj, start |-> outPos,
                                   end |-> outPos + Len(bytes)])]
    /\ IF wj < Len(dirs[wi].files)
       THEN wj' = wj + 1 /\ wpc' = "write_file_content"
       ELSE wj' = 1 /\ wpc' = "update_dir_content_record"
    /\ UNCHANGED <<opts, dirs, wi, file_names, dir_records, wres>>
    /\ UNCHANGED <<versionVars, headerVars, readerVars, recordVars>>

\* pfcr.update(&mut out), for the directory wi
update_dir_content_record ==
    /\ wpc = "update_dir_content_record"
    /\ out' = PositionedUpdate(out, dir_content_records[wi].position,
                               DirContentRecordBytes(dir_content_records[wi].data))
    /\ outPos' = Len(out')
    /\ wi' = wi + 1
    /\ wj' = 1
    /\ wpc' = FileLoopAt(wi + 1)
    /\ wres' = IF FileLoopAt(wi + 1) = "done" THEN "Ok" ELSE wres
    /\ UNCHANGED <<opts, dirs, file_names, dir_records, dir_content_records, blocks>>
    /\ UNCHANGED <<versionVars, headerVars, readerVars, recordVars>>

---------------------------------------------------------------------------
(* Reader (v10x.rs: BsaReaderV10X)                                         *)

\* A position or a length taken from four bytes of the source.  Every source
\* of the model is shorter than 2^16 bytes, so all values from 2^16 up lie
\* beyond its end and are kept as the one value FarPos.
FarPos == 256 * 256
ClampPos(n) == Min(n, FarPos)
PosOf(b) == IF b[3] = 0 /\ b[4] = 0 THEN b[1] + 256 * b[2] ELSE FarPos

\* Option<String>
None == [some |-> FALSE, name |-> <<>>]
Some(s) == [some |-> TRUE, name |-> s]

\* The result of reading at a position: what was read and where the reader
\* stands; when reading fails, where the failing read began.
ROk(pos, val) == [ok |-> TRUE, pos |-> pos, val |-> val]
RFail(pos) == [ok |-> FALSE, pos |-> pos, val |-> <<>>]

\* FileRecord::is_compression_bit_set
is_compression_bit_set(fr) == HasBit(fr.size[4], 64)

\* Mutant: the override bit is left in the size.
real_size_unmasked(fr) == fr.size

\* FileRecord::real_size: size & (0xffffffff ^ 0x40000000)
real_size(fr) ==
    [fr.size EXCEPT ![4] = IF HasBit(@, 64) THEN @ - 64 ELSE @]

\* HeaderV10X::effective_total_dir_name_len
effective_total_dir_name_len(h) == h.total_dir_name_length + h.dir_count

\* BsaReaderV10X::offset_after_header
offset_after_header == HeaderEnd

\* Mutant: the length bytes of the directory names are not counted.
offset_file_names_no_count(h) ==
    offset_after_header
      + RawDirRecordSize * h.dir_count
      + (IF Has(h, includes_dir_names) THEN h.total_dir_name_length ELSE 0)
      + h.file_count * FileRecordSize

\* BsaReaderV10X::offset_file_names
offset_file_names(h) ==
    LET dir_records_size == RawDirRecordSize * h.dir_count
        dir_names_size == IF Has(h, includes_dir_names)
                          THEN effective_total_dir_name_len(h) ELSE 0
        file_records_size == h.file_count * FileRecordSize
    IN  offset_after_header + dir_records_size + dir_names_size + file_records_size

\* RDR::read_bin_many(&mut reader, n)
ReadDirRecords(src, pos, n) ==
    IF pos + n * RawDirRecordSize > Len(src) THEN RFail(pos)
    ELSE ROk(pos + n * RawDirRecordSize,
             [k \in 1..n |->
                DirRecordParse(Slice(src, pos + (k - 1) * RawDirRecordSize,
                                     RawDirRecordSize))])

\* FileRecord::read_bin_many(reader, n)
ReadFileRecords(src, pos, n) ==
    IF pos + n * FileRecordSize > Len(src) THEN RFail(pos)
    ELSE ROk(pos + n * FileRecordSize,
             [k \in 1..n |->
                FileRecordParse(Slice(src, pos + (k - 1) * FileRecordSize,
                                      FileRecordSize))])

\* ZString::read_bin: the bytes before the first NUL
ReadZString(src, pos) ==
    LET nuls == {k \in (pos + 1)..Len(src) : src[k] = 0} IN
    IF nuls = {} THEN RFail(pos)
    ELSE LET end == CHOOSE k \in nuls : \A m \in nuls : k <= m
         IN  ROk(end, Slice(src, pos, end - pos - 1))

\* Collecting results into a Result<Vec<_>>: the first error, or the value
\* read first in front of the values read after it.
Prepend(first, rest) ==
    IF ~rest.ok THEN rest ELSE ROk(rest.pos, <<first.val>> \o rest.val)

\* ZString::read_bin_many(&mut reader, n)
RECURSIVE ReadZStrings(_, _, _)
ReadZStringsAfter(src, first, n) ==
    IF ~first.ok THEN first
    ELSE Prepend(first, ReadZStrings(src, first.pos, n - 1))

ReadZStrings(src, pos, n) ==
    IF n = 0 THEN ROk(pos, <<>>)
    ELSE ReadZStringsAfter(src, ReadZString(src, pos), n)

\* BZString::read_bin: a length byte, that many bytes, the last one a NUL
ReadBZString(src, pos) ==
    IF pos >= Len(src) THEN RFail(pos)
    ELSE LET len == src[pos + 1] IN
         IF pos + 1 + len > Len(src) THEN RFail(pos + 1)
         ELSE IF len = 0 \/ src[pos + 1 + len] # 0 THEN RFail(pos + 1 + len)
         ELSE ROk(pos + 1 + len, Slice(src, pos + 1, len - 1))

\* BsaReaderV10X::read_file_names, the names in the order read
read_file_names(src, h) ==
    IF Has(h, includes_file_names)
    THEN ReadZStrings(src, offset_file_names(h), h.file_count)
    ELSE ROk(offset_file_names(h), <<>>)

\* HashMap<Hash, ZString>::get on the map collected from the names: of the
\* names with that hash, the one collected last.
NameLookup(names, hash) ==
    LET hits == {k \in 1..Len(names) : HashV10X(names[k]) = hash} IN
    IF hits = {} THEN None
    ELSE Some(names[CHOOSE k \in hits : \A m \in hits : m <= k])

\* DirContentRecord::read_with_param(reader, (has_name, file_count)):
\* Ok(DirContentRecord { name, files }) ...
DirContentRecordOf(has_name, name, files) ==
    IF ~files.ok THEN files
    ELSE ROk(files.pos,
             [name |-> IF has_name THEN Some(name.val) ELSE None,
              files |-> files.val])

\* ... the file records, read after the name ...
DirContentRecordAfterName(src, has_name, name, file_count) ==
    IF ~name.ok THEN name
    ELSE DirContentRecordOf(has_name, name,
                            ReadFileRecords(src, name.pos, file_count))

\* ... and the name, read first when has_name.
DirContentRecordRead(src, pos, has_name, file_count) ==
    DirContentRecordAfterName(
        src, has_name,
        IF has_name THEN ReadBZString(src, pos) ELSE ROk(pos, <<>>),
        file_count)

\* BsaReaderV10X::to_file
to_file(h, names, fr) ==
    [hash |-> fr.name_hash,
     name |-> NameLookup(names, fr.name_hash),
     compressed |-> IF Has(h, is_compressed_by_default)
                    THEN ~is_compression_bit_set(fr)
                    ELSE is_compression_bit_set(fr),
     offset |-> fr.offset,
     size |-> real_size(fr)]

\* `has_dir_name` of read_dir
has_dir_name(h) == Has(h, includes_file_names)

\* BsaReaderV10X::read_dir: Ok(BsaDir { hash, name, files }) ...
BsaDirOf(h, names, dir, content) ==
    IF ~content.ok THEN content
    ELSE ROk(content.pos,
             [hash |-> dir.name_hash,
              name |-> content.val.name,
              files |-> [k \in 1..Len(content.val.files) |->
                           to_file(h, names, content.val.files[k])]])

\* ... of the content record read at dir.offset - total_file_name_length.
read_dir(src, h, names, dir) ==
    IF dir.offset < h.total_file_name_length THEN RFail(0)
    ELSE BsaDirOf(h, names, dir,
                  DirContentRecordRead(src, dir.offset - h.total_file_name_length,
                                       has_dir_name(h), dir.file_count))

\* raw_dirs.iter().map(read_dir).collect::<Result<Vec<BsaDir>>>()
RECURSIVE ReadDirs(_, _, _, _, _)
ReadDirsAfter(src, h, names, raw_dirs, first) ==
    IF ~first.ok THEN first
    ELSE Prepend(first, ReadDirs(src, h, names, Tail(raw_dirs), first.pos))

ReadDirs(src, h, names, raw_dirs, pos) ==
    IF raw_dirs = <<>> THEN ROk(pos, <<>>)
    ELSE ReadDirsAfter(src, h, names, raw_dirs,
                       read_dir(src, h, names, Head(raw_dirs)))

\* The else branch of list(): the directories, read once the names are ...
ReadTreeWithNames(src, h, raw_dirs, names) ==
    IF ~names.ok THEN names
    ELSE ReadDirs(src, h, names.val, raw_dirs.val, names.pos)

\* ... which are read once the directory records are ...
ReadTreeWithRecords(src, h, raw_dirs) ==
    IF ~raw_dirs.ok THEN raw_dirs
    ELSE ReadTreeWithNames(src, h, raw_dirs, read_file_names(src, h))

\* ... which are read first, after the header.
ReadTree(src, h) ==
    ReadTreeWithRecords(src, h,
                        ReadDirRecords(src, offset_after_header, h.dir_count))

NoDirs == [some |-> FALSE, dirs |-> <<>>]

\* list() when nothing is cached: self.dirs = Some(dirs); Ok(dirs), or the error.
ListRead(cache, tree) ==
    IF tree.ok
    THEN [kind |-> "Ok", dirs |-> tree.val,
          cache |-> [some |-> TRUE, dirs |-> tree.val],
          pos |-> tree.pos, touched |-> TRUE]
    ELSE [kind |-> "Err", dirs |-> <<>>, cache |-> cache,
          pos |-> tree.pos, touched |-> TRUE]

\* Mutant: list() reads the source whether or not a list is cached.
ListUncached(src, h, cache, pos) == ListRead(cache, ReadTree(src, h))

\* BsaReaderV10X::list: the result, the cache and the position after it, and
\* whether the source was touched (a seek or a read).
List(src, h, cache, pos) ==
    IF cache.some
    THEN [kind |-> "Ok", dirs |-> cache.dirs, cache |-> cache, pos |-> pos,
          touched |-> FALSE]
    ELSE ListRead(cache, ReadTree(src, h))

\* (&mut self.reader).take(limit), read to its end: the bytes handed on.
Take(src, pos, limit) ==
    IF pos >= Len(src) THEN <<>>
    ELSE Slice(src, pos, Min(limit, Len(src) - pos))

\* BsaReaderV10X::extract: the result, the bytes written to the writer, the
\* position after it, the bytes skipped before the data (embedded name, size
\* prefix) and the bytes that take() handed to the codec or to copy().
Extract(src, h, file) ==
    LET start == PosOf(file.offset)
        embedded == HasAny(h, embed_file_names)
        name_read == ~embedded \/ start < Len(src)
        after_name == IF embedded /\ name_read
                      THEN start + 1 + src[start + 1] ELSE start
        data_pos == IF file.compressed THEN after_name + 4 ELSE after_name
        window == Take(src, data_pos, PosOf(file.size))
        decoded == IF file.compressed THEN Uncompress(window)
                   ELSE [ok |-> TRUE, data |-> window]
    IN  IF ~name_read
        THEN [kind |-> "Err", data |-> <<>>, pos |-> ClampPos(start),
              skipped |-> 0, handed |-> 0]
        ELSE [kind |-> IF decoded.ok THEN "Ok" ELSE "Err",
              data |-> decoded.data,
              pos |-> ClampPos(data_pos + Len(window)),
              skipped |-> data_pos - start,
              handed |-> Len(window)]

\* The file entry of a call that had none.
NoFile == [hash |-> NoU32 \o NoU32, name |-> None, compressed |-> FALSE,
           offset |-> NoU32, size |-> NoU32]

RNone == [op |-> "none", kind |-> "None", dirs |-> <<>>, data |-> <<>>,
          touched |-> FALSE, file |-> NoFile, skipped |-> 0, handed |-> 0]

ReaderIdle ==
    /\ rpc = "closed"
    /\ rheader = ZeroHeader
    /\ rdirs = NoDirs
    /\ rpos = 0
    /\ rlast = RNone

\* BsaReaderV10X::read_bsa(reader) on the archive write_bsa produced
read_bsa ==
    /\ wpc = "done"
    /\ wres = "Ok"
    /\ rpc = "closed"
    /\ LET header == HeaderReadFixed(out) IN
        IF header.kind = "Ok"
        THEN /\ rpc' = "open"
             /\ rheader' = header.header
             /\ rpos' = RawHeaderPos + RawHeaderSize
             /\ rlast' = [RNone EXCEPT !.op = "read_bsa", !.kind = "Ok",
                                       !.touched = TRUE]
        ELSE /\ rlast' = [RNone EXCEPT !.op = "read_bsa", !.kind = "Err",
                                       !.touched = TRUE]
             /\ UNCHANGED <<rpc, rheader, rpos>>
    /\ UNCHANGED rdirs
    /\ UNCHANGED <<versionVars, headerVars, writerVars, recordVars>>

\* reader.list()
list ==
    /\ rpc = "open"
    /\ LET r == List(out, rheader, rdirs, rpos) IN
        /\ rdirs' = r.cache
        /\ rpos' = r.pos
        /\ rlast' = [RNone EXCEPT !.op = "list", !.kind = r.kind, !.dirs = r.dirs,
                                  !.touched = r.touched]
    /\ UNCHANGED <<rpc, rheader>>
    /\ UNCHANGED <<versionVars, headerVars, writerVars, recordVars>>

\* The file entries a caller holds once list() has returned.
ListedFiles ==
    UNION { {rdirs.dirs[d].files[f] : f \in 1..Len(rdirs.dirs[d].files)} :
            d \in 1..Len(rdirs.dirs) }

\* reader.extract(&file, writer) for a file entry that list() returned
extract ==
    /\ rpc = "open"
    /\ rdirs.some
    /\ \E file \in ListedFiles :
         LET r == Extract(out, rheader, file) IN
           /\ rpos' = r.pos
           /\ rlast' = [RNone EXCEPT !.op = "extract", !.kind = r.kind,
                                     !.data = r.data, !.touched = TRUE,
                                     !.file = file, !.skipped = r.skipped,
                                     !.handed = r.handed]
    /\ UNCHANGED <<rpc, rheader, rdirs>>
    /\ UNCHANGED <<versionVars, headerVars, writerVars, recordVars>>

---------------------------------------------------------------------------
(* One file record (v10x.rs: FileRecord, write_dir_content_record,         *)
(* write_file_contents, to_file)                                           *)

\* The byte counts write_file_content returns, cast to u32: small ones, and
\* those around 2^30 and up to 2^31 - 1.
CountSamples ==
    {0, 3, 259, 1073741823, 1073741824, 1073741829, 1342177280, 2147483647}

\* The values of the `size` field of a record read from an archive.
SizeSamples ==
    {<<a, b, c, d>> : a \in {0, 255}, b \in {0, 1}, c \in {0, 255},
                      d \in {0, 1, 63, 64, 65, 128, 129, 191, 192, 255}}

NoRecordInput ==
    [opts |-> [archive_flags |-> {}, file_flags |-> {}],
     file |-> [name |-> <<>>, data |-> <<>>, compressed |-> "None"],
     position |-> 0, count |-> 0]

NoRecord == [name_hash |-> NoU32 \o NoU32, size |-> NoU32, offset |-> NoU32]

RecordIdle ==
    /\ fpc = "idle"
    /\ fin = NoRecordInput
    /\ frec = NoRecord
    /\ fres = NoFile

\* A file of a directory, with or without a request for compression, in an
\* archive with or without CompressedArchive; the byte count that
\* write_file_content will return for it.
RecordInit ==
    /\ fpc = "new"
    /\ fin \in [opts : {[DefaultOptions EXCEPT !.archive_flags = af] :
                          af \in {{}, {"CompressedArchive"}}},
                file : {[name |-> FileName(1), data |-> <<>>, compressed |-> c] :
                          c \in {"None", "True", "False"}},
                position : {60, 65599},
                count : CountSamples]
    /\ frec = NoRecord
    /\ fres = NoFile

\* The FileRecord that write_dir_content_record makes for the file
record_placeholder ==
    /\ fpc = "new"
    /\ frec' = NewDirContentRecord(fin.opts,
                   [name |-> DirName(1), files |-> <<fin.file>>]).files[1]
    /\ fpc' = "placeholder"
    /\ UNCHANGED <<fin, fres>>
    /\ UNCHANGED <<versionVars, headerVars, writerVars, readerVars>>

\* fr.offset = out.stream_position()? as u32;
\* fr.size |= Self::write_file_content(..)? as u32
record_fill ==
    /\ fpc = "placeholder"
    /\ frec' = FilledFileRecord(frec, fin.position, fin.count)
    /\ fpc' = "filled"
    /\ UNCHANGED <<fin, fres>>
    /\ UNCHANGED <<versionVars, headerVars, writerVars, readerVars>>

\* Instead, the record is one that FileRecord::read_bin_many read from an
\* archive some other program wrote.
record_source ==
    /\ fpc = "new"
    /\ \E size \in SizeSamples :
          frec' = [name_hash |-> HashV10X(fin.file.name), size |-> size,
                   offset |-> U32LE(fin.position)]
    /\ fpc' = "sourced"
    /\ UNCHANGED <<fin, fres>>
    /\ UNCHANGED <<versionVars, headerVars, writerVars, readerVars>>

\* self.to_file(&file_names, file), the header holding the archive flags
record_to_file ==
    /\ fpc \in {"filled", "sourced"}
    /\ fres' = to_file(fin.opts, <<>>, frec)
    /\ fpc' = IF fpc = "filled" THEN "read_filled" ELSE "read_sourced"
    /\ UNCHANGED <<fin, frec>>
    /\ UNCHANGED <<versionVars, headerVars, writerVars, readerVars>>

---------------------------------------------------------------------------
(* Specifications                                                          *)

\* write_bsa on every input, then a reader on the archive it produced.
Init == VersionIdle /\ HeaderIdle /\ WriterInit /\ ReaderIdle /\ RecordIdle

Next ==
    \/ write_version
    \/ write_header
    \/ write_dir_record
    \/ write_dir_content_record
    \/ update_dir_record
    \/ write_file_names
    \/ write_file_content
    \/ update_dir_content_record
    \/ read_bsa
    \/ list
    \/ extract

Spec == Init /\ [][Next]_vars

\* A Version value written and read back, or read from a given source.
InitVersion == VersionInit /\ HeaderIdle /\ WriterIdle /\ ReaderIdle /\ RecordIdle

NextVersion ==
    \/ version_write
    \/ version_source
    \/ version_read_here
    \/ version_read
    \/ version_open

SpecVersion == InitVersion /\ [][NextVersion]_vars

\* A header value written and read back.
InitHeader == VersionIdle /\ HeaderInit /\ WriterIdle /\ ReaderIdle /\ RecordIdle

NextHeader ==
    \/ header_write_fixed
    \/ header_read_fixed

SpecHeader == InitHeader /\ [][NextHeader]_vars

\* One file record: its placeholder filled by the writer, or a record of some
\* other archive, and the entry the reader makes of it.
InitRecord == VersionIdle /\ HeaderIdle /\ WriterIdle /\ ReaderIdle /\ RecordInit

NextRecord ==
    \/ record_placeholder
    \/ record_fill
    \/ record_source
    \/ record_to_file

SpecRecord == InitRecord /\ [][NextRecord]_vars

---------------------------------------------------------------------------
(* Properties                                                              *)

\* What the caller put in, as list() is to give it back: the hash of every
\* name, and the lowercase name where the archive keeps names.
ExpectedTree(o, ds) ==
    [d \in 1..Len(ds) |->
        [hash |-> HashV10X(ds[d].name),
         name |-> IF "IncludeDirectoryNames" \in o.archive_flags
                  THEN Some(ToLowercase(ds[d].name)) ELSE None,
         files |-> [f \in 1..Len(ds[d].files) |->
                      [hash |-> HashV10X(ds[d].files[f].name),
                       name |-> IF "IncludeFileNames" \in o.archive_flags
                                THEN Some(ToLowercase(ds[d].files[f].name))
                                ELSE None]]]]

\* The (hash, name, files) tree of a listing.
ListedTree(listing) ==
    [d \in 1..Len(listing) |->
        [hash |-> listing[d].hash,
         name |-> listing[d].name,
         files |-> [f \in 1..Len(listing[d].files) |->
                      [hash |-> listing[d].files[f].hash,
                       name |-> listing[d].files[f].name]]]]

\* list() has just returned.
Listed == rlast.op = "list"

\* Some directory of the input has no files.
HasEmptyDir == \E d \in 1..Len(dirs) : Len(dirs[d].files) = 0

\* An input on which nothing but the round trip itself is in question: every
\* directory holds a file and no Xbox 360 flag is set.
PlainInput ==
    /\ ~HasEmptyDir
    /\ opts.archive_flags \cap Xbox360Flags = {}

\* C1: round trip: whatever the directories and whichever of
\* IncludeDirectoryNames and IncludeFileNames are set, list() on the archive
\* that write_bsa wrote succeeds and returns the directories in input order,
\* each with its hash, its name exactly when IncludeDirectoryNames is set,
\* and its files in order (hash, and name exactly when IncludeFileNames is set).
C1_RoundTrip ==
    (Listed /\ PlainInput) =>
        /\ rlast.kind = "Ok"
        /\ ListedTree(rlast.dirs) = ExpectedTree(opts, dirs)

\* The file record of file f of directory d as it stands on the sink.
OnDiskFileRecord(d, f) ==
    FileRecordParse(
        Slice(out,
              blocks.content[d]
                + (IF "IncludeDirectoryNames" \in opts.archive_flags
                   THEN Len(dirs[d].name) + 2 ELSE 0)
                + (f - 1) * FileRecordSize,
              FileRecordSize))

\* The compressed-ness the caller asked for: file.compressed if given,
\* otherwise the archive default.
RequestedCompressed(d, f) ==
    IF dirs[d].files[f].compressed = "None"
    THEN "CompressedArchive" \in opts.archive_flags
    ELSE dirs[d].files[f].compressed = "True"

C3_ListCaching ==
    [][ /\ rdirs.some => rdirs' = rdirs
        /\ (rdirs.some /\ list) =>
              /\ rlast'.kind = "Ok"
              /\ rlast'.dirs = rdirs.dirs
              /\ ~rlast'.touched
              /\ rpos' = rpos ]_vars

\* A cached list() returned after an extract() moved the reader into the
\* file data.
C3_Witness ==
    /\ Listed /\ rlast.kind = "Ok" /\ ~rlast.touched
    /\ blocks.data # <<>>
    /\ rpos > blocks.data[1].start

\* C4: header round trip: write_fixed(h) followed by read_fixed yields h, for
\* every header value.
C4_HeaderRoundTrip ==
    hpc = "read" => hres = HOk(hval)

\* A header with flags of both kinds and scalars in every byte was read back.
C4_Witness ==
    /\ hpc = "read"
    /\ hval.offset = 2147483647
    /\ hval.archive_flags = ArchiveFlag
    /\ hval.file_flags = {"Fonts", "Menus"}
    /\ hres.kind = "Ok"

\* C5: version round trip: writing a Version and reading it back yields the
\* same Version, and the bytes written are size(): 4 for V001, 8 for V10X
\* and V200.
C5_VersionRoundTrip ==
    (vpc = "read" /\ vval # NoVersion) =>
        /\ vres = VOk(vval)
        /\ Len(vbuf) = VersionSize(vval)
        /\ Len(vbuf) = (IF vval.tag = "V001" THEN 4 ELSE 8)

\* A V200 with a u32 above 2^31 was written and read back.
C5_Witness ==
    /\ vpc = "read"
    /\ vval = VersionV200(<<255, 1, 255, 128>>)
    /\ vres.kind = "Ok"

\* The source starts with the v10X magic and a u32 other than 103, 104, 105.
UnknownV10X ==
    /\ Len(vbuf) = 8
    /\ Slice(vbuf, 0, 4) = MagicV10X
    /\ Slice(vbuf, 4, 4) \notin {<<103, 0, 0, 0>>, <<104, 0, 0, 0>>, <<105, 0, 0, 0>>}

\* C6: unknown version: the v10X magic followed by a u32 other than 103, 104
\* and 105 reads as the UnknownVersion error carrying that u32, and as no
\* Version.
C6_UnknownVersion ==
    (vpc = "read" /\ UnknownV10X) =>
        /\ vres.kind = "UnknownVersion"
        /\ vres.arg = Slice(vbuf, 4, 4)

\* A v10X source with version 103 + 256 was read.
C6_Witness ==
    /\ vpc = "read"
    /\ UnknownV10X
    /\ Slice(vbuf, 4, 4) = <<103, 1, 0, 0>>

\* read or open was called on a V200 version.
DispatchedV200 ==
    /\ vpc \in {"read_done", "open_done", "open_failed"}
    /\ vval.tag = "V200"

\* C7 as stated: read and open on a V200 version always return the
\* UnsupportedVersion error.
C7_AlwaysUnsupported ==
    DispatchedV200 => vres.kind = "UnsupportedVersion"

\* C7, amended: BTDX followed by a u32 v decodes as V200(v); read on a V200
\* version returns UnsupportedVersion, open returns UnsupportedVersion when
\* the file could be opened and the error of opening it otherwise; neither
\* ever returns a reader.
C7_V200NeverReadable ==
    /\ (vpc = "read" /\ Len(vbuf) = 8 /\ Slice(vbuf, 0, 4) = MagicBTDX)
          => vres = VOk(VersionV200(Slice(vbuf, 4, 4)))
    /\ DispatchedV200 =>
          /\ vres.kind \notin {"ReaderV001", "ReaderV10X"}
          /\ vpc \in {"read_done", "open_done"} => vres.kind = "UnsupportedVersion"
          /\ vpc = "open_failed" => vres.kind = "Io"

\* open on a V200 version read from a BTDX source, the file opened.
C7_Witness ==
    /\ vpc = "open_done"
    /\ vval = VersionV200(<<104, 0, 255, 0>>)
    /\ Slice(vbuf, 0, 4) = MagicBTDX
    /\ vres.kind = "UnsupportedVersion"

\* write_bsa has returned.
Written == wpc = "done"

\* C8: write_bsa with Xbox360Archive or XMemCodec among the archive flags
\* fails with an error instead of producing an archive.
C8_XboxRejected ==
    (Written /\ ~HasEmptyDir /\ opts.archive_flags \cap Xbox360Flags # {})
        => wres # "Ok"

\* The directory record d as it stands on the sink.
OnDiskDirRecord(d) ==
    DirRecordParse(Slice(out, HeaderEnd + (d - 1) * RawDirRecordSize,
                         RawDirRecordSize))

C10_OffsetConsistency ==
    (Written /\ wres = "Ok") =>
        \A d \in 1..Len(dirs) :
            /\ OnDiskDirRecord(d).offset =
                  blocks.content[d]
                    + HeaderReadFixed(out).header.total_file_name_length
            /\ OnDiskDirRecord(d).name_hash = HashV10X(dirs[d].name)
            /\ OnDiskDirRecord(d).file_count = Len(dirs[d].files)
            /\ "IncludeDirectoryNames" \in opts.archive_flags =>
                  Slice(out, blocks.content[d], Len(dirs[d].name) + 2)
                    = BZStringBytes(dirs[d].name)
            /\ \A f \in 1..Len(dirs[d].files) :
                  OnDiskFileRecord(d, f).name_hash = HashV10X(dirs[d].files[f].name)

\* An archive with two directories and a non-empty file-name pool was written.
C10_Witness ==
    /\ Written /\ wres = "Ok"
    /\ Len(dirs) = 2
    /\ HeaderReadFixed(out).header.total_file_name_length > 0
    /\ OnDiskDirRecord(2).offset > OnDiskDirRecord(1).offset

\* The header as it stands on the sink.
OnDiskHeader == HeaderReadFixed(out).header

\* The on-disk size of the BZString at the start of content block d: the
\* length byte and the bytes it counts.
OnDiskDirNameSize(d) == 1 + out[blocks.content[d] + 1]

\* C11: name-length accounting: in the header write_bsa wrote,
\* total_file_name_length is the sum over all files of (name length + 1) when
\* IncludeFileNames is set and 0 otherwise; total_dir_name_length is the sum
\* over all directories of (name length + 1) when IncludeDirectoryNames is
\* set and 0 otherwise, so that total_dir_name_length + dir_count is the size
\* of the directory BZStrings on the sink.
C11_NameLengths ==
    (Written /\ wres = "Ok") =>
        /\ OnDiskHeader.total_file_name_length =
              (IF "IncludeFileNames" \in opts.archive_flags
               THEN SumSeq([d \in 1..Len(dirs) |->
                       SumSeq([f \in 1..Len(dirs[d].files) |->
                                  Len(dirs[d].files[f].name) + 1])])
               ELSE 0)
        /\ OnDiskHeader.total_dir_name_length =
              (IF "IncludeDirectoryNames" \in opts.archive_flags
               THEN SumSeq([d \in 1..Len(dirs) |-> Len(dirs[d].name) + 1])
               ELSE 0)
        /\ "IncludeDirectoryNames" \in opts.archive_flags =>
              /\ OnDiskHeader.total_dir_name_length + OnDiskHeader.dir_count
                    = SumSeq([d \in 1..Len(dirs) |-> OnDiskDirNameSize(d)])
              /\ \A d \in 1..Len(dirs) :
                    out[blocks.content[d] + OnDiskDirNameSize(d)] = 0

\* An archive with both kinds of names, two directories with names of
\* different lengths and two files in one of them, was written.
C11_Witness ==
    /\ Written /\ wres = "Ok"
    /\ {"IncludeFileNames", "IncludeDirectoryNames"} \subseteq opts.archive_flags
    /\ Len(dirs) = 2
    /\ Len(dirs[1].name) # Len(dirs[2].name)
    /\ Len(dirs[2].files) = 2
    /\ OnDiskHeader.total_file_name_length > 0

\* C12: the header of every archive write_bsa produced has offset 36,
\* dir_count equal to the number of directory records written, file_count
\* equal to the number of file records written over all directory-content
\* blocks, and the archive flags and file flags of the options.
C12_HeaderCounts ==
    (Written /\ wres = "Ok") =>
        /\ OnDiskHeader.offset = 36
        /\ OnDiskHeader.dir_count = Len(dir_records)
        /\ blocks.content # <<>> =>
              blocks.content[1] = 36 + OnDiskHeader.dir_count * RawDirRecordSize
        /\ OnDiskHeader.file_count =
              SumSeq([d \in 1..Len(dir_content_records) |->
                         Len(dir_content_records[d].data.files)])
        /\ OnDiskHeader.file_count =
              SumSeq([d \in 1..Len(dirs) |-> OnDiskDirRecord(d).file_count])
        /\ OnDiskHeader.archive_flags = opts.archive_flags
        /\ OnDiskHeader.file_flags = opts.file_flags

\* An archive of two directories and three files was written with file flags.
C12_Witness ==
    /\ Written /\ wres = "Ok"
    /\ opts.file_flags # {}
    /\ Len(dirs) = 2
    /\ OnDiskHeader.file_count = 3

\* Where the file records of directory d lie on the sink, going by its
\* directory record and the header: at offset - total_file_name_length, after
\* the BZString name when the header has IncludeDirectoryNames.
OnDiskFileRecordsAt(d) ==
    OnDiskDirRecord(d).offset - OnDiskHeader.total_file_name_length
      + (IF "IncludeDirectoryNames" \in OnDiskHeader.archive_flags
         THEN OnDiskDirNameSize(d) ELSE 0)

\* C13: when list() materializes a directory it reads a BZString name before
\* the file records exactly when the header has IncludeDirectoryNames,
\* whatever IncludeFileNames is, and then the dir.file_count file records
\* that start at dir.offset - total_file_name_length.
C13_DirNameIffFlag ==
    (Listed /\ rlast.kind = "Ok" /\ PlainInput) =>
        /\ Len(rlast.dirs) = Len(dirs)
        /\ \A d \in 1..Len(rlast.dirs) :
              /\ rlast.dirs[d].name.some
                    <=> ("IncludeDirectoryNames" \in rheader.archive_flags)
              /\ rlast.dirs[d].name.some =>
                    rlast.dirs[d].name.name =
                        Slice(out, blocks.content[d] + 1, OnDiskDirNameSize(d) - 2)
              /\ Len(rlast.dirs[d].files) = OnDiskDirRecord(d).file_count
              /\ \A k \in 1..Len(rlast.dirs[d].files) :
                    rlast.dirs[d].files[k].hash =
                        FileRecordParse(
                            Slice(out, OnDiskFileRecordsAt(d) + (k - 1) * FileRecordSize,
                                  FileRecordSize)).name_hash

\* extract() has just returned.
Extracted == rlast.op = "extract"

\* IncludeDirectoryNames and IncludeFileNames agree, so that list() found
\* the file records where the writer put them.
FlagsAgree ==
    ("IncludeDirectoryNames" \in opts.archive_flags)
        <=> ("IncludeFileNames" \in opts.archive_flags)

\* C14: extract() of a file entry consumes only source bytes inside
\* [offset, offset + real_size): after the embedded name and the size prefix
\* it skipped, the bytes handed to the codec or copied to the sink are
\* real_size minus the bytes skipped, and none lies in a following block.
\* (Archives without embedded names, listed with agreeing name flags.)
C14_ExtractBounds ==
    (/\ Extracted /\ rlast.kind = "Ok"
     /\ PlainInput /\ FlagsAgree
     /\ "EmbedFileNames" \notin opts.archive_flags
     /\ PosOf(rlast.file.offset) + PosOf(rlast.file.size) < Len(out)) =>
        /\ rlast.handed = PosOf(rlast.file.size) - rlast.skipped
        /\ PosOf(rlast.file.offset) + rlast.skipped + rlast.handed
              <= PosOf(rlast.file.offset) + PosOf(rlast.file.size)

\* C15: for every file write_bsa wrote, the length part of the on-disk size
\* of its file record is the byte count of its data block (embedded BString,
\* size prefix and payload): the record's offset is where the block starts,
\* and offset + real_size is where the next block starts, or the end of the
\* archive for the last file.
C15_SizeIsBlockSize ==
    (Written /\ wres = "Ok" /\ PlainInput) =>
        \A k \in 1..Len(blocks.data) :
            LET b == blocks.data[k]
                fr == OnDiskFileRecord(b.dir, b.file) IN
            /\ PosOf(fr.offset) = b.start
            /\ PosOf(real_size(fr)) = b.end - b.start
            /\ PosOf(fr.offset) + PosOf(real_size(fr)) =
                  (IF k < Len(blocks.data) THEN blocks.data[k + 1].start
                   ELSE Len(out))

\* to_file has made an entry of the record.
RecordRead == fpc \in {"read_filled", "read_sourced"}

\* Bit 30 of a u32 given as its four bytes.
Bit30(size) == (size[4] \div 64) % 2 = 1

\* C16 as stated: for every 32-bit size, real_size() is size & 0x3FFFFFFF
\* and is_compression_bit_set() is bit 30; list() reports that real_size.
C16_Mask3FFFFFFF ==
    RecordRead =>
        /\ real_size(frec) = [frec.size EXCEPT ![4] = @ % 64]
        /\ is_compression_bit_set(frec) = Bit30(frec.size)
        /\ fres.size = real_size(frec)

\* C16, amended: for every 32-bit size, real_size() is size & 0xBFFFFFFF
\* (bit 30 cleared, bit 31 kept) and is_compression_bit_set() is bit 30;
\* list() reports that real_size, and compressed as the archive default
\* turned over by bit 30.
C16_RealSizeClearsBit30 ==
    RecordRead =>
        /\ real_size(frec) =
              [frec.size EXCEPT ![4] = 128 * (@ \div 128) + (@ % 64)]
        /\ is_compression_bit_set(frec) = Bit30(frec.size)
        /\ fres.size = real_size(frec)
        /\ fres.compressed =
              (("CompressedArchive" \in fin.opts.archive_flags) # Bit30(frec.size))

\* A record whose size has bits 31 and 30 set and a length in every byte
\* was made an entry.
C16_Witness ==
    /\ fpc = "read_sourced"
    /\ frec.size = <<255, 1, 255, 255>>
    /\ fres.size = <<255, 1, 255, 191>>

\* The file's requested compressed-ness differs from the archive default.
RecordOverride ==
    /\ fin.file.compressed # "None"
    /\ (fin.file.compressed = "True")
          # ("CompressedArchive" \in fin.opts.archive_flags)

\* C17: the writer preserves the override bit: whatever the byte count ORed
\* into the size, counts of 2^30 and more included, bit 30 of the size is
\* afterwards the override bit of the placeholder: set exactly when the
\* file's requested compressed-ness differs from the archive default.
C17_OverrideBitPreserved ==
    /\ fpc = "placeholder" => (Bit30(frec.size) <=> RecordOverride)
    /\ fpc = "filled" => (Bit30(frec.size) <=> RecordOverride)

\* The position of the file-name pool as the claim computes it from the
\* written header.
PoolPositionFromHeader ==
    36 + OnDiskHeader.dir_count * RawDirRecordSize
       + (IF "IncludeDirectoryNames" \in OnDiskHeader.archive_flags
          THEN OnDiskHeader.total_dir_name_length + OnDiskHeader.dir_count
          ELSE 0)
       + OnDiskHeader.file_count * 16

\* C18: layout agreement for the file-name pool: the sink position at which
\* write_bsa starts the pool, after the last directory-content block, is the
\* position the reader computes from the written header, and the first file
\* data block starts total_file_name_length bytes after it.
C18_FileNamePoolPosition ==
    /\ wpc = "write_file_names" =>
          /\ outPos = PoolPositionFromHeader
          /\ outPos = offset_file_names(OnDiskHeader)
          /\ outPos = Len(out)
    /\ (Written /\ wres = "Ok") =>
          /\ offset_file_names(OnDiskHeader) = PoolPositionFromHeader
          /\ Slice(out, PoolPositionFromHeader,
                   OnDiskHeader.total_file_name_length)
                = Concat([k \in 1..Len(file_names.values) |->
                             ZStringBytes(file_names.values[k])])
          /\ blocks.data # <<>> =>
                blocks.data[1].start =
                    PoolPositionFromHeader + OnDiskHeader.total_file_name_length

\* An archive with directory names, a file-name pool and data blocks, of two
\* directories one of which is empty, was written.
C18_Witness ==
    /\ Written /\ wres = "Ok"
    /\ {"IncludeFileNames", "IncludeDirectoryNames"} \subseteq opts.archive_flags
    /\ Len(dirs) = 2
    /\ Len(dirs[1].files) = 0
    /\ OnDiskHeader.total_file_name_length > 0
    /\ blocks.data # <<>>
    /\ blocks.data[1].start > PoolPositionFromHeader

\* The (directory, file) pairs of the input in the caller's order.
InputFileOrder ==
    Concat([d \in 1..Len(dirs) |->
               [f \in 1..Len(dirs[d].files) |-> <<d, f>>]])

\* The bytes of the sink outside [position, position + n) stay as they are
\* and the sink keeps its length.
OnlyRewrites(position, n) ==
    /\ Len(out') = Len(out)
    /\ \A i \in 1..Len(out) :
          (i <= position \/ i > position + n) => out'[i] = out[i]

\* The data blocks of a finished archive lie in the caller's order, each
\* file record's offset is the start of its block, and the offsets increase
\* strictly when no block is empty.
DataBlocksInOrder ==
    (Written /\ wres = "Ok") =>
        /\ [k \in 1..Len(blocks.data) |-> <<blocks.data[k].dir, blocks.data[k].file>>]
              = InputFileOrder
        /\ \A k \in 1..Len(blocks.data) :
              /\ PosOf(OnDiskFileRecord(blocks.data[k].dir, blocks.data[k].file).offset)
                    = blocks.data[k].start
              /\ k > 1 => blocks.data[k].start = blocks.data[k - 1].end
        /\ (\A k \in 1..Len(blocks.data) : blocks.data[k].end > blocks.data[k].start)
              => \A k \in 2..Len(blocks.data) :
                    PosOf(OnDiskFileRecord(blocks.data[k].dir, blocks.data[k].file).offset)
                      > PosOf(OnDiskFileRecord(blocks.data[k - 1].dir,
                                               blocks.data[k - 1].file).offset)

\* C19: file data blocks are written in the caller's order, no sorting by
\* hash: each file record's backpatched offset is the sink position at the
\* start of its data block, the offsets increase strictly in that order when
\* every block is non-empty, and no backpatch of a directory record or of a
\* directory-content record changes the length of the sink or a byte outside
\* the placeholder it rewrites.
C19_DataBlockOrder ==
    /\ []DataBlocksInOrder
    /\ [][ /\ update_dir_record =>
                OnlyRewrites(dir_records[wi].position, RawDirRecordSize)
           /\ update_dir_content_record =>
                OnlyRewrites(dir_content_records[wi].position,
                             Len(DirContentRecordBytes(dir_content_records[wi].data)))
         ]_vars

\* An archive of two directories with two files each, no data block empty
\* and the hashes of the first directory's files in decreasing order, was
\* written.
C19_Witness ==
    /\ Written /\ wres = "Ok"
    /\ Len(blocks.data) = 4
    /\ \A k \in 1..4 : blocks.data[k].end > blocks.data[k].start
    /\ blocks.data[3].dir = 2
    /\ OnDiskFileRecord(1, 1).name_hash[4] > OnDiskFileRecord(1, 2).name_hash[4]

===========================================================================
